---- MODULE Spec2Model ----
(***************************************************************************)
(* Model of the studio-agents orchestration engine                         *)
(* (src/langgraph_agent_system.py) and of its WebSocket front end          *)
(* (src/web_interface/main.py).                                            *)
(*                                                                         *)
(* Texts are sequences of tokens.  A token stands for a run of characters  *)
(* that the code never splits: the markers "CLARIFIED:" (10 characters)    *)
(* and "QUESTION:" (9 characters), a blank " ", a word.                    *)
(***************************************************************************)
EXTENDS Integers, Sequences, FiniteSets, TLC

(***************************************************************************)
(* Bounds of the model.                                                    *)
(***************************************************************************)
MaxRequests == 2

(***************************************************************************)
(* Text helpers: str.strip, str.upper, substring test, startswith, slices. *)
(***************************************************************************)
Whitespace == {" "}

RECURSIVE LStrip(_)
LStrip(s) ==
    IF s # <<>> /\ Head(s) \in Whitespace THEN LStrip(Tail(s)) ELSE s

RECURSIVE RStrip(_)
RStrip(s) ==
    IF s # <<>> /\ s[Len(s)] \in Whitespace
    THEN RStrip(SubSeq(s, 1, Len(s) - 1))
    ELSE s

Strip(s) == RStrip(LStrip(s))

UpperTok(t) ==
    CASE t = "clarify" -> "CLARIFY"
      [] t = "Clarify" -> "CLARIFY"
      [] t = "code" -> "CODE"
      [] t = "answer" -> "ANSWER"
      [] t = "Answer" -> "ANSWER"
      [] t = "unsure" -> "UNSURE"
      [] t = "Error calling GPT-4o:" -> "ERROR CALLING GPT-4O:"
      [] t = "Error code: 401" -> "ERROR CODE: 401"
      [] t = "timed out" -> "TIMED OUT"
      [] OTHER -> t

Upper(s) == [i \in DOMAIN s |-> UpperTok(s[i])]

\* kw in tok, for the tokens of the model: a token contains itself, and the
\* upper-cased HTTP error text contains the word CODE.
TokHas(tok, kw) ==
    \/ tok = kw
    \/ kw = "CODE" /\ tok = "ERROR CODE: 401"

\* Python's `kw in text`
Contains(s, kw) == \E i \in DOMAIN s : TokHas(s[i], kw)

\* Python's text.startswith(marker), the marker being one token
StartsWith(s, marker) == s # <<>> /\ Head(s) = marker

\* Python's text[n:] where the first token is the n characters sliced off
AfterMarker(s) == Tail(s)

\* Python's text[:n]; every token is at least one character long
Slice(s, n) == SubSeq(s, 1, IF Len(s) < n THEN Len(s) ELSE n)

(***************************************************************************)
(* Inputs: user requests, console responses, outcomes of the external      *)
(* completion service at each call site.                                   *)
(***************************************************************************)
UserInputs == { <<"build something">> }

\* what input() returns at the clarification prompt, before .strip()
ConsoleResponses == { <<>>, <<" ">>, <<"web app">> }

SimulatedResponse == <<"I want to build a web application for managing inventory">>

ServiceErrors == { <<"timed out">>, <<"Error code: 401">> }

Reply(t) == [ok |-> TRUE, content |-> t]
Failure(e) == [ok |-> FALSE, err |-> e]

RoutingOutcomes ==
    { Reply(t) : t \in { <<"CLARIFY">>, <<"code">>, <<"Answer">>, <<"unsure">>,
                         <<"CODE", " ", "ANSWER">>,
                         <<"answer", " ", "code", " ", "clarify">>, <<>> } }
    \cup { Failure(e) : e \in ServiceErrors }

ClarifyOutcomes ==
    { Reply(t) : t \in { <<"CLARIFIED:", " ", "inventory web app">>,
                         <<"QUESTION:", " ", "what kind of project?">>,
                         <<"unsure">>, <<>> } }
    \cup { Failure(<<"timed out">>) }

RefineOutcomes ==
    { Reply(<<"Build an inventory web app">>), Reply(<<>>),
      Failure(<<"timed out">>) }

AnswerOutcomes ==
    { Reply(<<" ", "REST is an architectural style", " ">>), Reply(<<>>),
      Reply(<<" ">>), Failure(<<"timed out">>) }

(***************************************************************************)
(* State of one engine (LangGraphAgentSystem) and of the request it runs.  *)
(***************************************************************************)
VARIABLES
    TESTING_MODE,         \* module flag set by set_execution_modes
    conversation_memory,  \* LangGraphAgentSystem.conversation_memory
    node,                 \* position of the run in the graph
    state,                \* the AgentState threaded through the nodes
    result,               \* what the last call of process_request returned, if it has
    requests,             \* requests started so far
    calls,                \* external completion calls made in this request
    visited,              \* nodes executed in this request, in order
    initial_state,        \* process_request's initial_state
    fallback,             \* streaming has raised, the graph is run by invoke
    gateway               \* the last invocation of call_gpt4o taken on its own

engineVars == <<TESTING_MODE, conversation_memory, node, state, result,
                requests, calls, visited, initial_state, fallback, gateway>>

(***************************************************************************)
(* State of the WebSocket front end (web_interface/main.py).               *)
(***************************************************************************)
VARIABLES
    sessions,             \* SessionManager.sessions: id -> session object
    active_connections,   \* SessionManager.active_connections: id -> socket
    client,               \* each connection's peer: absent, connected, gone
    handler,              \* each connection's websocket_endpoint coroutine
    thread,               \* each connection's process_in_thread worker
    step_queue,           \* each connection's current run's step_queue
    builtins_print,       \* builtins.print: "print" or a run's streaming_print
    original_print,       \* run -> the print function its hook chains to
    objects,              \* the session objects ever created: id -> fields
    sent                  \* each connection: the messages its handler has sent
                          \* since it last received one

webVars == <<sessions, active_connections, client, handler, thread,
             step_queue, builtins_print, original_print, objects, sent>>

vars == <<engineVars, webVars>>

NoRoute == "none"
RouteType == {"clarify", "code", "answer"}
NoResult == [success |-> FALSE, route_taken |-> "none"]

create_agent_state(user_input) ==
    [ user_input |-> user_input,
      conversation_history |-> <<>>,
      clarified |-> FALSE,
      clarification_questions |-> <<>>,
      clarification_responses |-> <<>>,
      route |-> NoRoute,
      refined_prompt |-> <<>>,
      final_result |-> <<>>,
      error_message |-> <<>>,
      processing_steps |-> <<>> ]

\* a turn put at the head of the history
add_conversation_front(st, role, message) ==
    [st EXCEPT !.conversation_history =
                  <<[role |-> role, message |-> message]>> \o @]

add_conversation(st, role, message) ==
    [st EXCEPT !.conversation_history =
        Append(@, [role |-> role, message |-> message])]

add_step(st, step) ==
    [st EXCEPT !.processing_steps = Append(@, step)]

\* LLMManager.call_gpt4o: the stripped reply, or an error text; never raises
call_gpt4o(outcome) ==
    IF outcome.ok
    THEN Strip(outcome.content)
    ELSE <<"Error calling GPT-4o:">> \o outcome.err

\* a notification whose failure is let through
escapes_notification_unguarded(fails) == fails

\* lines 190-194, 204-208, 219-223, 230-234: a progress notification is
\* made inside try/except-pass; whether its failure leaves that block
escapes_notification(fails) == FALSE

\* which of the notifications of one invocation fail: those before the
\* external call, the one after it, the one of the error branch
NotificationFailures == [before : BOOLEAN, after : BOOLEAN, error : BOOLEAN]

NoCall == [made |-> FALSE, outcome |-> Failure(<<>>),
           fails |-> [before |-> FALSE, after |-> FALSE, error |-> FALSE],
           external |-> 0, raised |-> FALSE, returned |-> <<>>]

\* LLMManager.call_gpt4o statement by statement: the notifications, the
\* external call (line 210), the strip of its content (line 217), and the
\* handler of line 227 that turns any exception into the error text
invoke_gpt4o(outcome, fails) ==
    LET early == escapes_notification(fails.before)
        late == outcome.ok /\ escapes_notification(fails.after)
        failed == early \/ ~outcome.ok \/ late
        e == IF ~early /\ ~outcome.ok THEN outcome.err
             ELSE <<"notification failed">>
        raised == failed /\ escapes_notification(fails.error)
    IN  [ made |-> TRUE,
          outcome |-> outcome,
          fails |-> fails,
          external |-> IF early THEN 0 ELSE 1,
          raised |-> raised,
          returned |-> IF raised THEN <<>>
                       ELSE IF failed THEN <<"Error calling GPT-4o:">> \o e
                       ELSE Strip(outcome.content) ]

(***************************************************************************)
(* The graph nodes.  Each takes the state and the texts call_gpt4o (and    *)
(* the console) returned to it, and yields the state it returns.           *)
(***************************************************************************)

\* RouteType: the value of the member a category name stands for
route_value(name) ==
    CASE name = "CLARIFY" -> "clarify"
      [] name = "CODE" -> "code"
      [] name = "ANSWER" -> "answer"

\* an order of tests that looks for ANSWER first
route_tests_answer_first == <<"ANSWER", "CODE", "CLARIFY">>

\* lines 556-574: the order in which the reply is tested for the names
route_tests == <<"CLARIFY", "CODE", "ANSWER">>

\* the if/elif chain: the first name of `tests` the reply contains, and
\* Clarify when it contains none
RECURSIVE first_named(_, _)
first_named(response, tests) ==
    IF tests = <<>> THEN "clarify"
    ELSE IF Contains(response, Head(tests)) THEN route_value(Head(tests))
    ELSE first_named(response, Tail(tests))

\* a routing that sends an unrecognized reply to Answer
route_of_answer_default(response) ==
    IF Contains(response, "CLARIFY") THEN "clarify"
    ELSE IF Contains(response, "CODE") THEN "code"
    ELSE "answer"

\* route_prompt, from the classification reply on (lines 555-574)
route_of(response) == first_named(response, route_tests)

route_is_fallback(response) ==
    /\ ~Contains(response, "CLARIFY")
    /\ ~Contains(response, "CODE")
    /\ ~Contains(response, "ANSWER")

\* a routing that looks at the memory before it looks at the reply
route_prompt_by_memory(st, reply) ==
    LET response == Upper(Strip(reply))
        s1 == add_step(st, <<"Starting prompt routing analysis">>)
        s2 == add_step(s1, <<"Routing analysis result:">> \o response)
        s3 == [s2 EXCEPT !.route = IF Len(st.conversation_history) > 1
                                   THEN "answer" ELSE route_of(response)]
    IN  add_step(s3, <<"Route decision:", s3.route>>)

route_prompt(st, reply) ==
    LET response == Upper(Strip(reply))
        s1 == add_step(st, <<"Starting prompt routing analysis">>)
        s2 == add_step(s1, <<"Routing analysis result:">> \o response)
        s3 == [s2 EXCEPT !.route = route_of(response)]
        s4 == IF route_is_fallback(response)
              THEN add_step(s3, <<"Routing fallback - defaulting to CLARIFY">>)
              ELSE s3
    IN  add_step(s4, <<"Route decision:", s4.route>>)

\* the bound of the clarification dialogue (clarify_loop, line 436)
max_rounds_reached(st) == Len(st.clarification_questions) >= 2

\* what the user's response is: input().strip(), or the simulated response
console_response(testing, typed) ==
    IF ~testing THEN Strip(typed) ELSE SimulatedResponse

\* lines 374-402: the conversation history the re-check is given in its
\* prompt, the user's response already added
recheck_context(st, question, user_response) ==
    add_conversation(
        [st EXCEPT !.clarification_responses = Append(@, user_response)],
        "user", user_response).conversation_history

\* clarify_loop after a response was typed: the re-check and the bound
clarify_recheck(st, question, user_response, follow_up_response) ==
    LET r1 == [st EXCEPT !.clarification_responses = Append(@, user_response)]
        r2 == [r1 EXCEPT !.conversation_history =
                            recheck_context(st, question, user_response)]
        r3 == add_step(r2, <<"Received clarification response:">> \o user_response)
        r4 == [r3 EXCEPT !.user_input = @ \o <<" - ">> \o user_response]
    IN  IF StartsWith(follow_up_response, "CLARIFIED:")
        THEN add_step([r4 EXCEPT !.clarified = TRUE,
                                 !.refined_prompt = Strip(AfterMarker(follow_up_response))],
                      <<"Clarification completed after user response">>)
        ELSE IF max_rounds_reached(r4)
        THEN add_step([r4 EXCEPT !.clarified = TRUE,
                                 !.refined_prompt = r4.user_input \o <<" - ">> \o user_response],
                      <<"Maximum clarification rounds reached - proceeding">>)
        ELSE r4

\* a question that is recorded as asked but not as a turn
clarify_ask_silent(st, question) ==
    LET q1 == [st EXCEPT !.clarification_questions = Append(@, question)]
    IN  add_step(q1, <<"Asked clarification question:">> \o question)

\* lines 346-351: the question is recorded before the user is asked
clarify_ask(st, question) ==
    LET q1 == [st EXCEPT !.clarification_questions = Append(@, question)]
        q2 == add_conversation(q1, "assistant", question)
    IN  add_step(q2, <<"Asked clarification question:">> \o question)

\* the steps clarify_loop records before it looks at the reply
clarify_begin(st, response) ==
    add_step(add_step(st, <<"Starting clarification process">>),
             <<"Clarification analysis:">> \o Slice(response, 100) \o <<"...">>)

\* line 368: input() is reached, outside testing mode, when the reply is a
\* question
reaches_input(testing, response) ==
    ~testing /\ ~StartsWith(response, "CLARIFIED:") /\ StartsWith(response, "QUESTION:")

\* a fallback that leaves the request unresolved
clarify_fallback_unresolved(st) ==
    add_step(st, <<"Clarification fallback - proceeding with original input">>)

\* lines 455-459: a reply with neither marker
clarify_fallback(st) ==
    add_step([st EXCEPT !.clarified = TRUE,
                        !.refined_prompt = st.user_input],
             <<"Clarification fallback - proceeding with original input">>)

clarify_loop(st, response, user_response, follow_up_response) ==
    LET s2 == clarify_begin(st, response)
    IN  IF StartsWith(response, "CLARIFIED:")
        THEN add_step([s2 EXCEPT !.clarified = TRUE,
                                 !.refined_prompt = Strip(AfterMarker(response))],
                      <<"Clarification completed">>)
        ELSE IF StartsWith(response, "QUESTION:")
        THEN LET question == Strip(AfterMarker(response))
                 q3 == clarify_ask(s2, question)
             IN  IF user_response # <<>>
                 THEN clarify_recheck(q3, question, user_response, follow_up_response)
                 ELSE add_step([q3 EXCEPT !.clarified = TRUE,
                                          !.refined_prompt = q3.user_input],
                               <<"No clarification response - proceeding with original">>)
        ELSE clarify_fallback(s2)

\* number of external calls one execution of clarify_loop makes
clarify_calls(response, user_response) ==
    IF StartsWith(response, "QUESTION:") /\ ~StartsWith(response, "CLARIFIED:")
       /\ user_response # <<>>
    THEN 2 ELSE 1

\* a refinement that leaves refined_prompt as the clarification set it
refine_prompt_keeping(st, refined) ==
    LET s1 == add_step(st, <<"Starting prompt refinement">>)
    IN  add_step(s1, <<"Prompt refinement completed">>)

refine_prompt(st, refined) ==
    LET s1 == add_step(st, <<"Starting prompt refinement">>)
    IN  add_step([s1 EXCEPT !.refined_prompt = Strip(refined)],
                 <<"Prompt refinement completed">>)

placeholder_result(refined_prompt) ==
    <<"PLACEHOLDER CLAUDE CODE EXECUTION", "Refined Prompt:">>
        \o refined_prompt \o <<"Expected implementation: ...">>

run_claude_code(st) ==
    LET s1 == add_step(st, <<"Starting Claude Code execution (PLACEHOLDER)">>)
    IN  add_step([s1 EXCEPT !.final_result = placeholder_result(s1.refined_prompt)],
                 <<"Claude Code execution completed (placeholder)">>)

\* an answering step that also leaves the answer in refined_prompt
answer_with_llm_refining(st, answer) ==
    LET s1 == add_step(st, <<"Starting direct LLM answer generation">>)
    IN  add_step([s1 EXCEPT !.final_result = Strip(answer),
                            !.refined_prompt = Strip(answer)],
                 <<"Direct answer generation completed">>)

answer_with_llm(st, answer) ==
    LET s1 == add_step(st, <<"Starting direct LLM answer generation">>)
    IN  add_step([s1 EXCEPT !.final_result = Strip(answer)],
                 <<"Direct answer generation completed">>)

(***************************************************************************)
(* The edges of the graph (build_agent_graph).                             *)
(***************************************************************************)
after_route_prompt(st) ==
    LET key == IF st.route # NoRoute THEN st.route ELSE "clarify"
    IN  CASE key = "clarify" -> "clarify_loop"
          [] key = "code" -> "refine_prompt"
          [] key = "answer" -> "answer_with_llm"

\* an edge that goes round again whatever clarified is
after_clarify_loop_again(st) == "clarify_loop"

after_clarify_loop(st) ==
    IF st.clarified THEN "refine_prompt" ELSE "clarify_loop"

(***************************************************************************)
(* LangGraphAgentSystem.process_request, one action per graph step.        *)
(***************************************************************************)
EngineIdle ==
    /\ conversation_memory = <<>>
    /\ node = "idle"
    /\ state = create_agent_state(<<>>)
    /\ result = NoResult
    /\ requests = 0
    /\ calls = 0
    /\ visited = <<>>
    /\ initial_state = create_agent_state(<<>>)
    /\ fallback = FALSE
    /\ gateway = NoCall

\* lines 1018-1025: the initial state carries a copy of the memory
ProcessRequestStart(user_input) ==
    /\ node = "idle"
    /\ requests < MaxRequests
    /\ requests' = requests + 1
    /\ state' = add_step(
                  add_conversation(
                    [create_agent_state(user_input)
                        EXCEPT !.conversation_history = conversation_memory],
                    "user", user_input),
                  <<"Request received and processing started">>)
    /\ node' = "route_prompt"
    /\ calls' = 0
    /\ visited' = <<>>
    /\ result' = NoResult
    /\ initial_state' = state'
    /\ fallback' = FALSE
    /\ UNCHANGED <<TESTING_MODE, conversation_memory>>
    /\ UNCHANGED <<gateway, webVars>>

RoutePrompt(outcome) ==
    /\ node = "route_prompt"
    /\ state' = route_prompt(state, call_gpt4o(outcome))
    /\ node' = after_route_prompt(state')
    /\ calls' = calls + 1
    /\ visited' = Append(visited, "route_prompt")
    /\ UNCHANGED <<TESTING_MODE, conversation_memory, result, requests,
                   initial_state, fallback>>
    /\ UNCHANGED <<gateway, webVars>>

ClarifyLoop(outcome, typed, follow_up) ==
    /\ node = "clarify_loop"
    /\ LET response == call_gpt4o(outcome)
           user_response == console_response(TESTING_MODE, typed)
       IN  /\ state' = clarify_loop(state, response, user_response,
                                    call_gpt4o(follow_up))
           /\ calls' = calls + clarify_calls(response, user_response)
    /\ node' = after_clarify_loop(state')
    /\ visited' = Append(visited, "clarify_loop")
    /\ UNCHANGED <<TESTING_MODE, conversation_memory, result, requests,
                   initial_state, fallback>>
    /\ UNCHANGED <<gateway, webVars>>

\* line 1093: the state graph.invoke(initial_state) starts from.  The
\* dictionary initial_state keeps its scalar entries; its lists are the
\* objects the nodes of the streamed run appended to if the graph library
\* hands them to the nodes by reference (shared), and untouched if it
\* copies them.
invoke_input(initial, current, shared) ==
    IF shared
    THEN [initial EXCEPT
            !.conversation_history = current.conversation_history,
            !.clarification_questions = current.clarification_questions,
            !.clarification_responses = current.clarification_responses,
            !.processing_steps = current.processing_steps]
    ELSE initial

\* a failure result that carries no error text
failure_result_silent(error) ==
    [ success |-> FALSE,
      error |-> <<>>,
      final_result |-> <<>>,
      route_taken |-> "error",
      processing_steps |-> <<<<"Error occurred during processing">>>> ]

\* lines 1116-1126: what process_request returns when an exception reaches
\* its outer handler
failure_result(error) ==
    [ success |-> FALSE,
      error |-> error,
      final_result |-> <<>>,
      route_taken |-> "error",
      processing_steps |-> <<<<"Error occurred during processing">>>> ]

\* clarify_loop when input() raises EOFError (end of file on the console):
\* the streamed run falls back to graph.invoke (lines 1090-1093), which
\* starts again at route_prompt; raised in the fallback run, the exception
\* ends process_request with the failure result (lines 1116-1126)
ClarifyLoopRaises(outcome, shared) ==
    /\ node = "clarify_loop"
    /\ LET response == call_gpt4o(outcome)
           asked == clarify_ask(clarify_begin(state, response),
                                Strip(AfterMarker(response)))
       IN  /\ reaches_input(TESTING_MODE, response)
           /\ IF ~fallback
              THEN /\ fallback' = TRUE
                   /\ node' = "route_prompt"
                   /\ state' = invoke_input(initial_state, asked, shared)
                   /\ UNCHANGED result
              ELSE /\ node' = "idle"
                   /\ state' = asked
                   /\ result' = failure_result(<<"EOF when reading a line">>)
                   /\ UNCHANGED fallback
    /\ calls' = calls + 1
    /\ visited' = Append(visited, "clarify_loop")
    /\ UNCHANGED <<TESTING_MODE, conversation_memory, requests, initial_state>>
    /\ UNCHANGED <<gateway, webVars>>

RefinePrompt(outcome) ==
    /\ node = "refine_prompt"
    /\ state' = refine_prompt(state, call_gpt4o(outcome))
    /\ node' = "run_claude_code"
    /\ calls' = calls + 1
    /\ visited' = Append(visited, "refine_prompt")
    /\ UNCHANGED <<TESTING_MODE, conversation_memory, result, requests,
                   initial_state, fallback>>
    /\ UNCHANGED <<gateway, webVars>>

RunClaudeCode ==
    /\ node = "run_claude_code"
    /\ state' = run_claude_code(state)
    /\ node' = "END"
    /\ visited' = Append(visited, "run_claude_code")
    /\ UNCHANGED <<TESTING_MODE, conversation_memory, result, requests, calls,
                   initial_state, fallback>>
    /\ UNCHANGED <<gateway, webVars>>

AnswerWithLLM(outcome) ==
    /\ node = "answer_with_llm"
    /\ state' = answer_with_llm(state, call_gpt4o(outcome))
    /\ node' = "END"
    /\ calls' = calls + 1
    /\ visited' = Append(visited, "answer_with_llm")
    /\ UNCHANGED <<TESTING_MODE, conversation_memory, result, requests,
                   initial_state, fallback>>
    /\ UNCHANGED <<gateway, webVars>>

\* lines 1099-1115: the result returned once the graph has reached END
request_result(final_state) ==
    [ success |-> TRUE,
      final_result |-> final_state.final_result,
      route_taken |-> IF final_state.route # NoRoute
                      THEN final_state.route ELSE "unknown",
      clarified |-> final_state.clarified,
      refined_prompt |-> final_state.refined_prompt,
      processing_steps |-> final_state.processing_steps,
      conversation_history |-> final_state.conversation_history,
      error_message |-> final_state.error_message ]

ProcessRequestReturn ==
    /\ node = "END"
    /\ conversation_memory' = state.conversation_history
    /\ result' = request_result(state)
    /\ node' = "idle"
    /\ UNCHANGED <<TESTING_MODE, state, requests, calls, visited,
                   initial_state, fallback>>
    /\ UNCHANGED <<gateway, webVars>>

(***************************************************************************)
(* The WebSocket front end: SessionManager, websocket_endpoint,            *)
(* process_request_with_streaming.                                         *)
(***************************************************************************)
NumConns == 2
MaxMessages == 2
MaxHeartbeats == 1
MaxSessions == 5

Conns == 1 .. NumConns

NoSession == 0
\* uuid.uuid4(): a value no other call returns
uuid4(c) == 100 + c
\* an id a client may name that no session ever had
BogusId == uuid4(0)
ClientIds == { uuid4(c) : c \in Conns } \cup { BogusId }

\* the built-in print, and the streaming_print closure of a run
RealPrint == 0
RunId(c, k) == 10 * c + k
ConnOfRun(r) == r \div 10

\* SessionManager
MapPut(map, key, value) ==
    [k \in DOMAIN map \cup {key} |-> IF k = key THEN value ELSE map[k]]

\* a pop that empties the dictionary
MapClear(map, key) == [k \in {} |-> map[k]]

MapPop(map, key) == [k \in DOMAIN map \ {key} |-> map[k]]

get_session(map, session_id) ==
    IF session_id \in DOMAIN map THEN map[session_id] ELSE NoSession

\* a removal that forgets the session object
remove_session_keeping(maps, session_id) ==
    [sessions |-> maps.sessions,
     active_connections |-> MapPop(maps.active_connections, session_id)]

\* the pair (sessions, active_connections) after remove_session(session_id)
remove_session(maps, session_id) ==
    [sessions |-> MapPop(maps.sessions, session_id),
     active_connections |-> MapPop(maps.active_connections, session_id)]

\* a creation whose insert into sessions is lost
create_session_unregistered(maps, session_id, websocket) ==
    [sessions |-> maps.sessions,
     active_connections |-> MapPut(maps.active_connections, session_id, websocket)]

\* a creation that records no connection for the session
create_session_unconnected(maps, session_id, websocket) ==
    [sessions |-> MapPut(maps.sessions, session_id, session_id),
     active_connections |-> maps.active_connections]

\* the pair (sessions, active_connections) after create_session(websocket)
create_session(maps, session_id, websocket) ==
    [sessions |-> MapPut(maps.sessions, session_id, session_id),
     active_connections |-> MapPut(maps.active_connections, session_id, websocket)]

new_session_object == [memory |-> <<>>, message_count |-> 0]

\* set_execution_modes(testing=False, thinking=False, steps=False)
ExecutionModeParams == {"testing", "thinking", "steps"}

\* a call with a keyword the signature does not have raises TypeError
set_execution_modes_raises(keyword) == keyword \notin ExecutionModeParams

(***************************************************************************)
(* The prints one run of process_request makes, by the class the bridge's  *)
(* filter puts them in, in the order the run makes them:                   *)
(*   action  print_action("Processing request ...")            line 1018   *)
(*   route   print("   <latest step>") after route_prompt      line 1052   *)
(*   other   print("-" * 60)                                   line 1095   *)
(*   result  print_result("Request processed ...")             line 1114   *)
(***************************************************************************)
PrintScript == <<"action", "route", "other", "result">>

\* what a run can come to: process_request's result, by what the handler
\* looks at (success, route_taken, and whether final_result reads as a
\* question to the user)
PlainAnswer == [success |-> TRUE, route_taken |-> "answer", final |-> "plain"]

Fates ==
    { PlainAnswer,
      [success |-> TRUE, route_taken |-> "clarify", final |-> "asks"],
      [success |-> FALSE, route_taken |-> "error", final |-> "empty"] }

NoFate == [success |-> FALSE, route_taken |-> "none", final |-> "empty"]

\* a message a handler sends: its type, the request of its connection it
\* belongs to, the run and the index of the print it forwards (RealPrint, 0
\* when it forwards none), and whether it reached the client
Msg(type, req, src, n, data) ==
    [type |-> type, req |-> req, src |-> src, n |-> n, data |-> data, ok |-> TRUE]

TerminalTypes == {"final_result", "clarification_needed", "error"}

\* a queue that puts at the head
queue_put_front(q, item) == <<item>> \o q

\* queue.Queue: put at the tail, get from the head
queue_put(q, item) == Append(q, item)

\* calling the print function p: a run's streaming_print puts the message on
\* that run's step_queue, then calls the function it captured as original
RECURSIVE Emit(_, _, _, _, _)
Emit(queues, p, item, hand, orig) ==
    IF p = RealPrint
    THEN queues
    ELSE LET c == ConnOfRun(p)
             q == IF RunId(c, hand[c].msgs) = p
                  THEN [queues EXCEPT ![c] = queue_put(@, item)]
                  ELSE queues
         IN  Emit(q, orig[p], item, hand, orig)

\* lines 1026-1051: the message the bridge forwards for one queue entry
forwarded(item, req, route_sent) ==
    LET kind == PrintScript[item.n]
    IN  IF kind \in {"action", "result"}
        THEN <<Msg("processing_step", req, item.src, item.n, kind)>>
        ELSE IF kind = "route" /\ ~route_sent
        THEN <<Msg("route_decision", req, item.src, item.n, "route")>>
        ELSE <<>>

RECURSIVE Drain(_, _, _)
Drain(items, req, route_sent) ==
    IF items = <<>>
    THEN [msgs |-> <<>>, route_sent |-> route_sent]
    ELSE LET first == forwarded(Head(items), req, route_sent)
             rest == Drain(Tail(items), req,
                           route_sent \/ PrintScript[Head(items).n] = "route")
         IN  [msgs |-> first \o rest.msgs, route_sent |-> rest.route_sent]

\* the limit of messages forwarded per pass of the monitoring loop
MaxPerLoop == 5

Min(a, b) == IF a < b THEN a ELSE b

\* a reply whose clarification branch falls through to the final result
handler_reply_both(fate, req) ==
    LET route == <<Msg("route_decision", req, RealPrint, 0, fate.route_taken)>>
    IN  IF fate.success
        THEN route \o route \o
             (IF fate.final = "asks"
              THEN <<Msg("clarification_needed", req, RealPrint, 0, fate.final)>>
              ELSE <<>>) \o
             <<Msg("final_result", req, RealPrint, 0, fate.final)>>
        ELSE route \o <<Msg("error", req, RealPrint, 0, "error")>>

\* lines 875-942: what the handler sends once the bridge has returned result
handler_reply(fate, req) ==
    LET route == <<Msg("route_decision", req, RealPrint, 0, fate.route_taken)>>
    IN  IF fate.success
        THEN route \o route \o
             (IF fate.final = "asks"
              THEN <<Msg("clarification_needed", req, RealPrint, 0, fate.final)>>
              ELSE <<Msg("final_result", req, RealPrint, 0, fate.final)>>)
        ELSE route \o <<Msg("error", req, RealPrint, 0, "error")>>

\* lines 876-881 and 944-950: the sends the handler attempts when the first
\* send_text raises
failed_reply(fate, req, exception) ==
    <<Msg("route_decision", req, RealPrint, 0, fate.route_taken),
      Msg("error", req, RealPrint, 0, exception)>>

\* websocket.send_text / streamer.send_update: the message reaches the
\* client if it is connected
Deliver(c, msgs) ==
    sent' = [sent EXCEPT ![c] =
                @ \o [i \in DOMAIN msgs |->
                        [msgs[i] EXCEPT !.ok = (client[c] = "connected")]]]

\* the sends that follow the receipt of a message (the client is connected):
\* the record of what was sent for the previous message is dropped
Restart(c, msgs) ==
    sent' = [sent EXCEPT ![c] = msgs]

IdleHandler == [pc |-> "none", session_id |-> NoSession, target |-> NoSession,
                msgs |-> 0, route_sent |-> FALSE, heartbeats |-> 0,
                malformed |-> 0, since_beat |-> 0, since_forward |-> 0]

IdleThread == [pc |-> "none", printed |-> 0, agent |-> NoSession,
               hist |-> <<>>, fate |-> NoFate]

alive(t) == t.pc \in {"install", "run"}

\* messages received so far on connections 1 .. n
RECURSIVE Received(_, _)
Received(hand, n) ==
    IF n = 0 THEN 0 ELSE hand[n].msgs + Received(hand, n - 1)

(***************************************************************************)
(* websocket_endpoint, from accept to the call of set_execution_modes.     *)
(***************************************************************************)
\* a client connects; line 815: await websocket.accept()
Connect(c) ==
    /\ client[c] = "absent"
    /\ client' = [client EXCEPT ![c] = "connected"]
    /\ handler' = [handler EXCEPT ![c].pc = "accepted"]
    /\ UNCHANGED <<sessions, active_connections, thread, step_queue,
                   builtins_print, original_print, objects, sent>>
    /\ UNCHANGED engineVars

\* the peer goes away
ClientDisconnect(c) ==
    /\ client[c] = "connected"
    /\ client' = [client EXCEPT ![c] = "gone"]
    /\ UNCHANGED <<sessions, active_connections, handler, thread, step_queue,
                   builtins_print, original_print, objects, sent>>
    /\ UNCHANGED engineVars

\* what a send does when the peer is gone: the server stack raises
\* WebSocketDisconnect or another exception, or drops the message
SendFailures == {"WebSocketDisconnect", "RuntimeError", "ignored"}

\* lines 820 and 964-966: where an exception raised outside the message loop
\* leaves the endpoint (the finally clause has run in both cases)
endpoint_exit(exception) ==
    IF exception = "WebSocketDisconnect" THEN "closed" ELSE "escaped"

\* lines 818-826: create_session, then the session_created message is sent
HandlerCreate(c, failure) ==
    /\ handler[c].pc = "accepted"
    /\ LET sid == uuid4(c)
           created == create_session([sessions |-> sessions,
                                      active_connections |-> active_connections],
                                     sid, c)
           raised == client[c] = "gone" /\ failure # "ignored"
           maps == IF raised THEN remove_session(created, sid) ELSE created
       IN  /\ sessions' = maps.sessions
           /\ active_connections' = maps.active_connections
           /\ objects' = MapPut(objects, sid, new_session_object)
           /\ handler' = [handler EXCEPT
                            ![c].pc = IF raised THEN endpoint_exit(failure)
                                      ELSE "created",
                            ![c].session_id = sid]
           /\ Deliver(c, <<Msg("session_created", 0, RealPrint, 0, sid)>>)
    /\ UNCHANGED <<client, thread, step_queue, builtins_print, original_print>>
    /\ UNCHANGED engineVars

\* lines 828-831 and 964-969: set_execution_modes(http=True); when the call
\* raises, the finally clause removes the session and the exception leaves
\* the endpoint
HandlerModes(c) ==
    /\ handler[c].pc = "created"
    /\ IF set_execution_modes_raises("http")
       THEN LET maps == remove_session([sessions |-> sessions,
                                        active_connections |-> active_connections],
                                       handler[c].session_id)
            IN  /\ sessions' = maps.sessions
                /\ active_connections' = maps.active_connections
                /\ handler' = [handler EXCEPT ![c].pc = "escaped"]
       ELSE /\ handler' = [handler EXCEPT ![c].pc = "receive"]
            /\ UNCHANGED <<sessions, active_connections>>
    /\ UNCHANGED <<client, thread, step_queue, builtins_print, original_print,
                   objects, sent>>
    /\ UNCHANGED engineVars

(***************************************************************************)
(* websocket_endpoint's message loop (lines 833-962) and                   *)
(* process_request_with_streaming.                                         *)
(***************************************************************************)
\* lines 952-969: an exception inside the loop body ends the loop (break),
\* the finally clause removes the handler's own session
HandlerClose(c) ==
    LET maps == remove_session([sessions |-> sessions,
                                active_connections |-> active_connections],
                               handler[c].session_id)
    IN  /\ sessions' = maps.sessions
        /\ active_connections' = maps.active_connections
        /\ handler' = [handler EXCEPT ![c].pc = "closed"]

\* a rejection that counts the message on the connection's own session
HandlerInvalidSessionCounted(c, named) ==
    /\ handler[c].pc = "receive"
    /\ client[c] = "connected"
    /\ Received(handler, NumConns) < MaxMessages
    /\ get_session(sessions, named) = NoSession
    /\ handler' = [handler EXCEPT ![c].msgs = @ + 1, ![c].target = NoSession]
    /\ Restart(c, <<Msg("error", handler[c].msgs + 1, RealPrint, 0, "Invalid session")>>)
    /\ objects' = [objects EXCEPT ![handler[c].session_id].message_count = @ + 1]
    /\ UNCHANGED <<sessions, active_connections, client, thread, step_queue,
                   builtins_print, original_print>>
    /\ UNCHANGED engineVars

\* lines 836-853: a message that names a session the manager does not have
HandlerInvalidSession(c, named) ==
    /\ handler[c].pc = "receive"
    /\ client[c] = "connected"
    /\ Received(handler, NumConns) < MaxMessages
    /\ get_session(sessions, named) = NoSession
    /\ handler' = [handler EXCEPT ![c].msgs = @ + 1, ![c].target = NoSession]
    /\ Restart(c, <<Msg("error", handler[c].msgs + 1, RealPrint, 0, "Invalid session")>>)
    /\ UNCHANGED <<sessions, active_connections, client, thread, step_queue,
                   builtins_print, original_print, objects>>
    /\ UNCHANGED engineVars

\* lines 836-873 and 980-1016: a message for a session the manager has; the
\* bridge captures the current print function and starts the worker thread
HandlerReceive(c, named) ==
    /\ handler[c].pc = "receive"
    /\ client[c] = "connected"
    /\ Received(handler, NumConns) < MaxMessages
    /\ get_session(sessions, named) # NoSession
    /\ LET req == handler[c].msgs + 1
       IN  /\ handler' = [handler EXCEPT ![c].pc = "monitor",
                                         ![c].msgs = req,
                                         ![c].target = get_session(sessions, named),
                                         ![c].route_sent = FALSE,
                                         ![c].heartbeats = 0,
                                         ![c].since_beat = 0,
                                         ![c].since_forward = 0]
           /\ Restart(c, <<Msg("user_message", req, RealPrint, 0, "echo"),
                           Msg("processing_update", req, RealPrint, 0, "start")>>)
           /\ original_print' = MapPut(original_print, RunId(c, req), builtins_print)
           /\ step_queue' = [step_queue EXCEPT ![c] = <<>>]
           /\ thread' = [thread EXCEPT ![c] =
                            [IdleThread EXCEPT !.pc = "install",
                                               !.agent = get_session(sessions, named)]]
    /\ UNCHANGED <<sessions, active_connections, client, builtins_print, objects>>
    /\ UNCHANGED engineVars

\* inbound texts the loop does not take as a request: text that is not
\* JSON, JSON that is not an object ('[1]', '"hi"', '5', 'null'), an object
\* whose message is missing or empty
MalformedKinds == {"not_json", "not_object", "no_text"}

\* lines 837-843 and 954-962: json.loads raises JSONDecodeError, answered
\* by an error message; payload.get raises AttributeError on a value that
\* is not an object, caught by the last except clause, which leaves the
\* loop; an empty message is skipped
malformed_outcome(kind) ==
    CASE kind = "not_json" -> "error"
      [] kind = "not_object" -> "break"
      [] kind = "no_text" -> "continue"

\* lines 836-843, 954-969: a malformed message is received
HandlerMalformed(c, kind) ==
    /\ handler[c].pc = "receive"
    /\ client[c] = "connected"
    /\ handler[c].malformed < MaxMessages
    /\ LET outcome == malformed_outcome(kind)
           maps == IF outcome = "break"
                   THEN remove_session([sessions |-> sessions,
                                        active_connections |-> active_connections],
                                       handler[c].session_id)
                   ELSE [sessions |-> sessions,
                         active_connections |-> active_connections]
       IN  /\ sessions' = maps.sessions
           /\ active_connections' = maps.active_connections
           /\ handler' = [handler EXCEPT
                            ![c].malformed = @ + 1,
                            ![c].pc = IF outcome = "break" THEN "closed" ELSE @]
           /\ IF outcome = "error"
              THEN Restart(c, <<Msg("error", handler[c].msgs, RealPrint, 0,
                                    "Invalid JSON format")>>)
              ELSE UNCHANGED sent
    /\ UNCHANGED <<client, thread, step_queue, builtins_print, original_print,
                   objects>>
    /\ UNCHANGED engineVars

\* line 836 raising WebSocketDisconnect: the peer is gone
HandlerDisconnect(c) ==
    /\ handler[c].pc = "receive"
    /\ client[c] = "gone"
    /\ HandlerClose(c)
    /\ UNCHANGED <<client, thread, step_queue, builtins_print, original_print,
                   objects, sent>>
    /\ UNCHANGED engineVars

\* lines 1018-1062: one pass of the monitoring loop while the thread is alive
HandlerMonitor(c, heartbeat) ==
    /\ handler[c].pc = "monitor"
    /\ alive(thread[c])
    /\ heartbeat => handler[c].heartbeats < MaxHeartbeats
    /\ step_queue[c] # <<>> \/ heartbeat
    /\ LET taken == Min(MaxPerLoop, Len(step_queue[c]))
           drained == Drain(SubSeq(step_queue[c], 1, taken), handler[c].msgs,
                            handler[c].route_sent)
           beat == IF heartbeat
                   THEN <<Msg("processing_step", handler[c].msgs, RealPrint, 0, "Processing...")>>
                   ELSE <<>>
       IN  /\ step_queue' = [step_queue EXCEPT
                               ![c] = SubSeq(@, taken + 1, Len(@))]
           /\ handler' = [handler EXCEPT
                            ![c].route_sent = drained.route_sent,
                            ![c].heartbeats = IF heartbeat THEN @ + 1 ELSE @,
                            ![c].since_beat = IF heartbeat THEN 0 ELSE @,
                            ![c].since_forward =
                                IF drained.msgs # <<>> THEN 0 ELSE @]
           /\ Deliver(c, drained.msgs \o beat)
    /\ UNCHANGED <<sessions, active_connections, client, thread,
                   builtins_print, original_print, objects>>
    /\ UNCHANGED engineVars

\* line 1058: the keep-alive is due when more than 5 seconds have passed
\* since last_heartbeat (set at line 1015 and at line 1060)
HeartbeatInterval == 5

heartbeat_due(since_last_heartbeat) == since_last_heartbeat > HeartbeatInterval

\* one time unit passes during a run.  The handler's record keeps the time
\* since last_heartbeat and the time since it last forwarded a step (or
\* since the run began), both counted up to HeartbeatInterval + 1; the
\* monitoring loop polls several times per unit, so no unit passes while
\* the keep-alive is due
Tick(c) ==
    /\ handler[c].pc = "monitor"
    /\ ~heartbeat_due(handler[c].since_beat)
    /\ handler' = [handler EXCEPT
                     ![c].since_beat = @ + 1,
                     ![c].since_forward = Min(@ + 1, HeartbeatInterval + 1)]
    /\ UNCHANGED <<sessions, active_connections, client, thread, step_queue,
                   builtins_print, original_print, objects, sent>>
    /\ UNCHANGED engineVars

\* lines 1064-1093 and 875-950: the thread has ended; the bridge returns its
\* result and the handler replies.  With the peer gone the first send_text
\* either raises (the except clause's own send raises again, the loop is
\* left and the session removed) or is dropped.
HandlerFinish(c, failure) ==
    /\ handler[c].pc = "monitor"
    /\ thread[c].pc = "dead"
    /\ LET req == handler[c].msgs
           raised == client[c] = "gone" /\ failure # "ignored"
           session == handler[c].target
           done == <<Msg("processing_step", req, RealPrint, 0, "Processing completed!")>>
       IN  /\ Deliver(c, done \o (IF raised
                                   THEN failed_reply(thread[c].fate, req, failure)
                                   ELSE handler_reply(thread[c].fate, req)))
           /\ IF raised
              THEN /\ HandlerClose(c)
                   /\ UNCHANGED objects
              ELSE /\ handler' = [handler EXCEPT ![c].pc = "receive"]
                   /\ objects' = [objects EXCEPT ![session].message_count = @ + 1]
                   /\ UNCHANGED <<sessions, active_connections>>
    /\ UNCHANGED <<client, thread, step_queue, builtins_print, original_print>>
    /\ UNCHANGED engineVars

(***************************************************************************)
(* process_in_thread: the worker of one run.                               *)
(***************************************************************************)
\* line 995: builtins.print = streaming_print
ThreadInstall(c) ==
    /\ thread[c].pc = "install"
    /\ builtins_print' = RunId(c, handler[c].msgs)
    /\ thread' = [thread EXCEPT ![c].pc = "run"]
    /\ UNCHANGED <<sessions, active_connections, client, handler, step_queue,
                   original_print, objects, sent>>
    /\ UNCHANGED engineVars

\* the user turn process_request adds for this run's message
user_turn(c, req) == [role |-> "user", message |-> <<"message", c, req>>]

\* line 998: agent.process_request(user_input), one print at a time; the
\* first print is followed by the copy of the agent's memory (line 1023)
ThreadPrint(c) ==
    /\ thread[c].pc = "run"
    /\ thread[c].printed + 1 < Len(PrintScript)
    /\ LET n == thread[c].printed + 1
           run == RunId(c, handler[c].msgs)
           copied == Append(objects[thread[c].agent].memory,
                            user_turn(c, handler[c].msgs))
       IN  /\ step_queue' = Emit(step_queue, builtins_print,
                                 [src |-> run, n |-> n], handler, original_print)
           /\ thread' = [thread EXCEPT ![c].printed = n,
                                       ![c].hist = IF n = 1 THEN copied ELSE @]
    /\ UNCHANGED <<sessions, active_connections, client, handler,
                   builtins_print, original_print, objects, sent>>
    /\ UNCHANGED engineVars

\* lines 1099-1126: the end of process_request; a successful request writes
\* the agent's memory (line 1100) before its last print (line 1114), a
\* failed one only prints (line 1118)
ThreadLastPrint(c, fate) ==
    /\ thread[c].pc = "run"
    /\ thread[c].printed + 1 = Len(PrintScript)
    /\ LET n == thread[c].printed + 1
           run == RunId(c, handler[c].msgs)
       IN  /\ step_queue' = Emit(step_queue, builtins_print,
                                 [src |-> run, n |-> n], handler, original_print)
           /\ thread' = [thread EXCEPT ![c].printed = n, ![c].fate = fate]
           /\ objects' = IF fate.success
                         THEN [objects EXCEPT ![thread[c].agent].memory = thread[c].hist]
                         ELSE objects
    /\ UNCHANGED <<sessions, active_connections, client, handler,
                   builtins_print, original_print, sent>>
    /\ UNCHANGED engineVars

\* lines 999-1008: the result is queued, print is restored, the thread ends
ThreadReturn(c) ==
    /\ thread[c].pc = "run"
    /\ thread[c].printed = Len(PrintScript)
    /\ builtins_print' = original_print[RunId(c, handler[c].msgs)]
    /\ thread' = [thread EXCEPT ![c].pc = "dead"]
    /\ UNCHANGED <<sessions, active_connections, client, handler, step_queue,
                   original_print, objects, sent>>
    /\ UNCHANGED engineVars

(***************************************************************************)
(* Specifications.                                                         *)
(*   Spec       one engine processing requests (process_request)           *)
(*   SpecConn   websocket_endpoint from accept on, as written              *)
(*   SpecBridge the message loop and the streaming bridge of one           *)
(*              connection standing at the head of its message loop (line  *)
(*              833) with its session created; FairSpecBridge adds         *)
(*              fairness of the worker thread and of the event loop        *)
(*   SpecServe  the same loop for every connection at once, with clients   *)
(*              that stay and runs that succeed                            *)
(***************************************************************************)
WebIdle ==
    /\ sessions = <<>>
    /\ active_connections = <<>>
    /\ objects = <<>>
    /\ client = [c \in Conns |-> "absent"]
    /\ handler = [c \in Conns |-> IdleHandler]
    /\ thread = [c \in Conns |-> IdleThread]
    /\ step_queue = [c \in Conns |-> <<>>]
    /\ builtins_print = RealPrint
    /\ original_print = <<>>
    /\ sent = [c \in Conns |-> <<>>]

Init ==
    /\ TESTING_MODE \in BOOLEAN
    /\ EngineIdle
    /\ WebIdle

Next ==
    \/ \E u \in UserInputs : ProcessRequestStart(u)
    \/ \E o \in RoutingOutcomes : RoutePrompt(o)
    \/ \E o \in ClarifyOutcomes, t \in ConsoleResponses, f \in ClarifyOutcomes :
          ClarifyLoop(o, t, f)
    \/ \E o \in ClarifyOutcomes, shared \in BOOLEAN : ClarifyLoopRaises(o, shared)
    \/ \E o \in RefineOutcomes : RefinePrompt(o)
    \/ RunClaudeCode
    \/ \E o \in AnswerOutcomes : AnswerWithLLM(o)
    \/ ProcessRequestReturn

Spec == Init /\ [][Next]_vars

\* call_gpt4o on its own: every outcome of the external call the nodes are
\* given, every combination of failing notifications
GatewayOutcomes ==
    RoutingOutcomes \cup ClarifyOutcomes \cup RefineOutcomes \cup AnswerOutcomes

CallGpt4o(outcome, fails) ==
    /\ gateway' = invoke_gpt4o(outcome, fails)
    /\ UNCHANGED <<TESTING_MODE, conversation_memory, node, state, result,
                   requests, calls, visited, initial_state, fallback>>
    /\ UNCHANGED webVars

GatewayNext ==
    \E o \in GatewayOutcomes, fails \in NotificationFailures : CallGpt4o(o, fails)

SpecGateway == Init /\ [][GatewayNext]_vars

ConnInit ==
    /\ TESTING_MODE = FALSE
    /\ EngineIdle
    /\ WebIdle

ConnNext ==
    \/ \E c \in Conns : Connect(c)
    \/ \E c \in Conns : ClientDisconnect(c)
    \/ \E c \in Conns, f \in SendFailures : HandlerCreate(c, f)
    \/ \E c \in Conns : HandlerModes(c)

SpecConn == ConnInit /\ [][ConnNext]_vars

\* the connections of `present` stand at the head of their message loop,
\* each with the session the endpoint created for it; the others are absent
Serving(present) ==
    /\ TESTING_MODE = FALSE
    /\ EngineIdle
    /\ sessions = [s \in {uuid4(c) : c \in present} |-> s]
    /\ active_connections = [s \in {uuid4(c) : c \in present} |-> s - uuid4(0)]
    /\ objects = [s \in {uuid4(c) : c \in present} |-> new_session_object]
    /\ client = [c \in Conns |-> IF c \in present THEN "connected" ELSE "absent"]
    /\ handler = [c \in Conns |->
                    IF c \in present
                    THEN [IdleHandler EXCEPT !.pc = "receive", !.session_id = uuid4(c)]
                    ELSE IdleHandler]
    /\ thread = [c \in Conns |-> IdleThread]
    /\ step_queue = [c \in Conns |-> <<>>]
    /\ builtins_print = RealPrint
    /\ original_print = <<>>
    /\ sent = [c \in Conns |->
                 IF c \in present
                 THEN <<Msg("session_created", 0, RealPrint, 0, uuid4(c))>>
                 ELSE <<>>]

\* one client, which may leave at any time; runs of any length and fate
BridgeInit == Serving({1})

BridgeNext ==
    \/ \E c \in Conns : ClientDisconnect(c)
    \/ \E c \in Conns, s \in ClientIds : HandlerInvalidSession(c, s)
    \/ \E c \in Conns, s \in ClientIds : HandlerReceive(c, s)
    \/ \E c \in Conns : HandlerDisconnect(c)
    \/ \E c \in Conns, hb \in BOOLEAN : HandlerMonitor(c, hb)
    \/ \E c \in Conns, f \in SendFailures : HandlerFinish(c, f)
    \/ \E c \in Conns : ThreadInstall(c)
    \/ \E c \in Conns : ThreadPrint(c)
    \/ \E c \in Conns, fate \in Fates : ThreadLastPrint(c, fate)
    \/ \E c \in Conns : ThreadReturn(c)

SpecBridge == BridgeInit /\ [][BridgeNext]_vars

\* the SessionManager on its own: sessions are created for sockets
\* 1 .. MaxSessions, and remove_session is called with any id, whether
\* registered, removed before, or never created
SessionIds == { uuid4(k) : k \in 1 .. MaxSessions }

CreateSession(websocket) ==
    /\ uuid4(websocket) \notin DOMAIN objects
    /\ LET maps == create_session([sessions |-> sessions,
                                   active_connections |-> active_connections],
                                  uuid4(websocket), websocket)
       IN  /\ sessions' = maps.sessions
           /\ active_connections' = maps.active_connections
    /\ objects' = MapPut(objects, uuid4(websocket), new_session_object)
    /\ UNCHANGED <<client, handler, thread, step_queue, builtins_print,
                   original_print, sent>>
    /\ UNCHANGED engineVars

RemoveSession(session_id) ==
    /\ LET maps == remove_session([sessions |-> sessions,
                                   active_connections |-> active_connections],
                                  session_id)
       IN  /\ sessions' = maps.sessions
           /\ active_connections' = maps.active_connections
    /\ UNCHANGED <<client, handler, thread, step_queue, builtins_print,
                   original_print, objects, sent>>
    /\ UNCHANGED engineVars

ManagerNext ==
    \/ \E k \in 1 .. MaxSessions : CreateSession(k)
    \/ \E s \in SessionIds \cup {BogusId} : RemoveSession(s)

SpecManager == ConnInit /\ [][ManagerNext]_vars

\* the receipt of messages that start no run, on every connection
InboundNext ==
    \/ \E c \in Conns : ClientDisconnect(c)
    \/ \E c \in Conns, s \in ClientIds : HandlerInvalidSession(c, s)
    \/ \E c \in Conns, k \in MalformedKinds : HandlerMalformed(c, k)
    \/ \E c \in Conns : HandlerDisconnect(c)

SpecInbound == Serving(Conns) /\ [][InboundNext]_vars

\* the streaming bridge of one connection with the passage of time
HeartbeatNext ==
    \/ \E c \in Conns, s \in ClientIds : HandlerReceive(c, s)
    \/ \E c \in Conns : Tick(c)
    \/ \E c \in Conns : HandlerMonitor(c, heartbeat_due(handler[c].since_beat))
    \/ \E c \in Conns : HandlerFinish(c, "ignored")
    \/ \E c \in Conns : ThreadInstall(c)
    \/ \E c \in Conns : ThreadPrint(c)
    \/ \E c \in Conns, fate \in Fates : ThreadLastPrint(c, fate)
    \/ \E c \in Conns : ThreadReturn(c)

SpecHeartbeat == BridgeInit /\ [][HeartbeatNext]_vars

\* every client connected and staying, runs that succeed and end before a
\* keep-alive is due
ServeInit == Serving(Conns)

ServeNext ==
    \/ \E c \in Conns, s \in ClientIds : HandlerInvalidSession(c, s)
    \/ \E c \in Conns, s \in ClientIds : HandlerReceive(c, s)
    \/ \E c \in Conns : HandlerMonitor(c, FALSE)
    \/ \E c \in Conns : HandlerFinish(c, "ignored")
    \/ \E c \in Conns : ThreadInstall(c)
    \/ \E c \in Conns : ThreadPrint(c)
    \/ \E c \in Conns : ThreadLastPrint(c, PlainAnswer)
    \/ \E c \in Conns : ThreadReturn(c)

SpecServe == ServeInit /\ [][ServeNext]_vars

(***************************************************************************)
(* Properties of the engine, checked under Spec.                           *)
(***************************************************************************)
NonEmpty(text) == text # <<>>

\* C1: when a run has reached Terminal, exactly one of final_result and
\* error_message is non-empty, whatever the completion service replied
C1_ExactlyOneOutcome ==
    node = "END" => (NonEmpty(state.final_result) # NonEmpty(state.error_message))

\* C2: in every state of a request at most two clarification questions
\* have been asked (after the second the clarification step sets clarified)
C2_ClarificationBounded ==
    Len(state.clarification_questions) <= 2

Occurrences(seq, x) == Cardinality({i \in DOMAIN seq : seq[i] = x})

\* C11: the routing step executes exactly once in a request: never a
\* second time, and once when the run has reached Terminal
C11_RoutingOnce ==
    /\ Occurrences(visited, "route_prompt") <= 1
    /\ node = "END" => Occurrences(visited, "route_prompt") = 1

\* C12: once the routing step has set route, no later step of the same
\* request changes it
C12_RouteImmutable ==
    [][(requests' = requests /\ state.route # NoRoute)
          => state'.route = state.route]_vars

\* C13: within a request clarified never goes back to false (so it becomes
\* true at most once), and once it is true the clarification step is not
\* executed again
C13_ClarifiedOnce ==
    [][(requests' = requests /\ state.clarified)
          => /\ state'.clarified
             /\ Occurrences(visited', "clarify_loop")
                  = Occurrences(visited, "clarify_loop")]_vars

\* a run that reached Terminal after a clarification that took two passes
C13_ClarifiedThenExecuted ==
    /\ node = "END"
    /\ state.clarified
    /\ Occurrences(visited, "clarify_loop") = 2
    /\ visited[Len(visited)] = "run_claude_code"

\* the routing step is the last node that ran
JustRouted == visited # <<>> /\ visited[Len(visited)] = "route_prompt"

FallbackNote == <<"Routing fallback - defaulting to CLARIFY">>

\* the step recorded just before the route decision is the fallback note
FallbackNoted ==
    state.processing_steps[Len(state.processing_steps) - 1] = FallbackNote

\* the upper-cased classification reply, as the routing step recorded it
RoutingResponse ==
    LET n == Len(state.processing_steps)
    IN  Tail(state.processing_steps[IF FallbackNoted THEN n - 2 ELSE n - 1])

\* C14: a classification reply that contains none of CLARIFY, CODE, ANSWER
\* (case ignored) gives route Clarify and a fallback note in the steps; any
\* other reply gives a route whose name occurs in it, and no fallback note
C14_RoutingFallback ==
    JustRouted =>
        IF \A kw \in {"CLARIFY", "CODE", "ANSWER"} : ~Contains(RoutingResponse, kw)
        THEN state.route = "clarify" /\ FallbackNoted
        ELSE /\ Contains(RoutingResponse, UpperTok(state.route))
             /\ ~FallbackNoted

\* a reply naming no category was routed to Clarify with the note
C14_UnrecognizedReply ==
    /\ JustRouted
    /\ RoutingResponse = <<"UNSURE">>
    /\ state.route = "clarify"
    /\ FallbackNoted

Names(response) == {kw \in {"CLARIFY", "CODE", "ANSWER"} : Contains(response, kw)}

\* C33: the route the routing step sets follows the precedence Clarify,
\* Code, Answer among the names its reply contains: Clarify if CLARIFY is
\* there, Code exactly if CODE is there and CLARIFY is not, Answer exactly
\* if ANSWER is there and neither CLARIFY nor CODE
C33_RoutingPrecedence ==
    JustRouted =>
        LET names == Names(RoutingResponse)
        IN  /\ "CLARIFY" \in names => state.route = "clarify"
            /\ state.route = "code" <=> ("CODE" \in names /\ "CLARIFY" \notin names)
            /\ state.route = "answer" <=> (names = {"ANSWER"})

\* a reply naming all three categories, answer first, was routed to Clarify
\* without the fallback note
C33_AllThreeNamed ==
    /\ JustRouted
    /\ RoutingResponse = <<"ANSWER", " ", "CODE", " ", "CLARIFY">>
    /\ state.route = "clarify"
    /\ ~FallbackNoted

\* the executions of the routing step a list of steps records: the reply
\* each received (upper-cased) and the route it set
RoutingRecords(steps) ==
    { <<Tail(steps[q[1]]), steps[q[2]][2]>> :
        q \in { p \in (DOMAIN steps) \X (DOMAIN steps) :
                         /\ steps[p[1]][1] = "Routing analysis result:"
                         /\ steps[p[2]][1] = "Route decision:"
                         /\ p[1] < p[2]
                         /\ \A k \in (p[1] + 1) .. (p[2] - 1) : steps[k] = FallbackNote } }

\* states the routing step can be given: fresh ones, the request's initial
\* state, the current state
RoutingInputs ==
    {create_agent_state(u) : u \in UserInputs \cup {<<"what is REST">>}}
        \cup {initial_state, state}

\* C15: two executions of the routing step that received the same reply
\* set the same route, whatever the input, the memory and the state were:
\* those the steps of the request record, and the one that just ran
\* compared with the routing step given its reply on any other state
C15_RoutingDeterministic ==
    /\ \A a, b \in RoutingRecords(state.processing_steps) :
           a[1] = b[1] => a[2] = b[2]
    /\ JustRouted =>
           \A st \in RoutingInputs :
               route_prompt(st, RoutingResponse).route = state.route

\* the routing step ran a second time in a request, on a memory that is
\* not empty and on lists the first run had appended to, and got the reply
\* it had got the first time
C15_SameReplyTwice ==
    /\ JustRouted
    /\ fallback
    /\ conversation_memory # <<>>
    /\ Cardinality({i \in DOMAIN state.processing_steps :
                      state.processing_steps[i]
                         = <<"Routing analysis result:">> \o RoutingResponse}) = 2

\* C16: a request executes the clarification step at most twice, and it
\* ends by reaching Terminal: process_request never ends with an
\* exception raised inside the run
C16_ReachesTerminal ==
    /\ Occurrences(visited, "clarify_loop") <= 2
    /\ (node = "idle" /\ requests > 0) => result.success

\* a question of the clarification step that no response has followed
QuestionOpen(st) ==
    Len(st.clarification_questions) > Len(st.clarification_responses)

\* C18: once the clarification step has asked a question, the run makes no
\* further gateway call until a response has been appended
C18_SuspendsUntilResponse ==
    [][(requests' = requests /\ QuestionOpen(state)) => calls' = calls]_vars

IsPrefix(p, q) == Len(p) <= Len(q) /\ SubSeq(q, 1, Len(p)) = p

Turn(role, message) == [role |-> role, message |-> message]

\* the turns of a history from position n on
TurnsFrom(history, n) == {history[i] : i \in n .. Len(history)}

\* C23: the memory a completed request leaves has the memory it started
\* from as a prefix, followed by the request's user turn and then the
\* turns of its clarification dialogue (each question an assistant turn,
\* each response a user turn); a request starts from the memory as it is,
\* with its user turn added
C23_MemoryAppendOnly ==
    [][ /\ (node = "END" /\ node' = "idle") =>
              LET old == conversation_memory
                  new == conversation_memory'
              IN  /\ IsPrefix(old, new)
                  /\ Len(new) > Len(old)
                  /\ new[Len(old) + 1] = Turn("user", initial_state.user_input)
                  /\ \A i \in DOMAIN state.clarification_questions :
                        Turn("assistant", state.clarification_questions[i])
                           \in TurnsFrom(new, Len(old) + 2)
                  /\ \A i \in DOMAIN state.clarification_responses :
                        Turn("user", state.clarification_responses[i])
                           \in TurnsFrom(new, Len(old) + 2)
        /\ (node = "idle" /\ node' = "route_prompt") =>
              state'.conversation_history
                 = Append(conversation_memory, Turn("user", state'.user_input))
      ]_vars

\* a second request completed on a memory that already held the first
\* request's clarification dialogue
C23_SecondRequestCompleted ==
    /\ node = "idle"
    /\ requests = 2
    /\ result # NoResult /\ result.success
    /\ Len(conversation_memory) >= 4
    /\ conversation_memory[1].role = "user"
    /\ conversation_memory[2].role = "assistant"
    /\ conversation_memory[3] = Turn("user", <<"web app">>)
    /\ conversation_memory[Len(conversation_memory)].role = "user"
    /\ state.clarification_questions = <<>>

Last(seq) == seq[Len(seq)]

\* the clarification step has just ended the dialogue at its bound
ForcedNow ==
    /\ node = "refine_prompt"
    /\ state.processing_steps # <<>>
    /\ Last(state.processing_steps)
          = <<"Maximum clarification rounds reached - proceeding">>

\* C27: when clarification is force-terminated, refined_prompt is the
\* request's original input followed by the last clarification response
\* and nothing else (with or without the separator between them)
C27_ForcedRefinedText ==
    ForcedNow =>
        state.refined_prompt
           \in { initial_state.user_input \o Last(state.clarification_responses),
                 initial_state.user_input \o <<" - ">>
                     \o Last(state.clarification_responses) }

\* the successions of nodes the workflow allows, with the start and the
\* return of process_request around them
Successions ==
    { <<"idle", "route_prompt">>,
      <<"route_prompt", "clarify_loop">>, <<"route_prompt", "refine_prompt">>,
      <<"route_prompt", "answer_with_llm">>,
      <<"clarify_loop", "clarify_loop">>, <<"clarify_loop", "refine_prompt">>,
      <<"refine_prompt", "run_claude_code">>,
      <<"run_claude_code", "END">>, <<"answer_with_llm", "END">>,
      <<"END", "idle">> }

\* C28: a run moves from node to node only along the allowed successions,
\* and a run that has executed the clarification step does not execute the
\* answering step
C28_NodeSuccessions ==
    [][/\ node' # node => <<node, node'>> \in Successions
       /\ requests' = requests =>
             ~(Occurrences(visited', "clarify_loop") > 0
                 /\ Occurrences(visited', "answer_with_llm") > 0)]_vars

\* C30: a clarification round with a non-empty response adds to the
\* conversation history the question as an assistant turn and right after
\* it the response as a user turn, and the history given to the re-check
\* already ends with both
C30_PairBeforeRecheck ==
    [][(requests' = requests
          /\ Len(state'.clarification_responses) > Len(state.clarification_responses))
       => LET q == Last(state'.clarification_questions)
              r == Last(state'.clarification_responses)
              pair == <<Turn("assistant", q), Turn("user", r)>>
          IN  /\ r # <<>>
              /\ Len(state'.clarification_questions)
                    = Len(state.clarification_questions) + 1
              /\ Len(state'.clarification_responses)
                    = Len(state.clarification_responses) + 1
              /\ state'.conversation_history = state.conversation_history \o pair
              /\ recheck_context(clarify_ask(state, q), q, r)
                    = state.conversation_history \o pair]_vars

\* a round answered at the console whose re-check asked for more, another
\* round to come
C30_RoundAnswered ==
    /\ ~TESTING_MODE
    /\ node = "clarify_loop"
    /\ ~state.clarified
    /\ state.clarification_responses = <<<<"web app">>>>
    /\ Len(state.conversation_history) = 3
    /\ state.conversation_history[2]
          = Turn("assistant", Last(state.clarification_questions))
    /\ state.conversation_history[3] = Turn("user", <<"web app">>)

\* C31: in a request routed to Answer refined_prompt is empty in every
\* state of the run, at Terminal, and in the result returned
C31_AnswerLeavesRefinedEmpty ==
    /\ state.route = "answer" => state.refined_prompt = <<>>
    /\ (node = "idle" /\ result # NoResult /\ result.route_taken = "answer")
          => result.refined_prompt = <<>>

\* an answered request, returned
C31_AnswerReturned ==
    /\ node = "idle"
    /\ result # NoResult
    /\ result.success
    /\ result.route_taken = "answer"
    /\ visited = <<"route_prompt", "answer_with_llm">>
    /\ result.final_result = <<"REST is an architectural style">>
    /\ result.refined_prompt = <<>>

\* the reply an execution of the clarification step recorded in its
\* analysis step, the second step it added to `before`
ClarifyReply(before, after) ==
    LET rec == after.processing_steps[Len(before.processing_steps) + 2]
    IN  SubSeq(rec, 2, Len(rec) - 1)

\* C34: an execution of the clarification step whose reply begins with
\* neither CLARIFIED: nor QUESTION: asks no question, adds no turn, sets
\* clarified, and sets refined_prompt to the input text as it is
C34_ClarifyFallback ==
    [][(/\ requests' = requests
        /\ fallback' = fallback
        /\ visited' = Append(visited, "clarify_loop")
        /\ ~StartsWith(ClarifyReply(state, state'), "CLARIFIED:")
        /\ ~StartsWith(ClarifyReply(state, state'), "QUESTION:"))
       => /\ state'.clarification_questions = state.clarification_questions
          /\ state'.clarification_responses = state.clarification_responses
          /\ state'.conversation_history = state.conversation_history
          /\ state'.clarified
          /\ state'.user_input = state.user_input
          /\ state'.refined_prompt = state.user_input
          /\ node' = "refine_prompt"]_vars

\* the clarification step was answered by a gateway error text and went on
\* with the input as it was
C34_ErrorTextReply ==
    /\ node = "refine_prompt"
    /\ Len(state.processing_steps) >= 2
    /\ state.processing_steps[Len(state.processing_steps) - 1]
          = <<"Clarification analysis:", "Error calling GPT-4o:", "timed out", "...">>
    /\ state.clarified
    /\ state.clarification_questions = <<>>
    /\ state.refined_prompt = state.user_input

\* the memory the request in hand started from: its initial history
\* without the user turn process_request added
MemoryBefore ==
    SubSeq(initial_state.conversation_history, 1,
           Len(initial_state.conversation_history) - 1)

\* C35: a request that failed with an exception has returned success =
\* false with an error text, and the memory is what it was before the
\* request, without the request's user turn
C35_FailureKeepsMemory ==
    (node = "idle" /\ result # NoResult /\ ~result.success)
       => /\ NonEmpty(result.error)
          /\ result.final_result = <<>>
          /\ conversation_memory = MemoryBefore
          /\ Len(conversation_memory) < Len(state.conversation_history)

\* a second request that failed on a memory the first request had filled
C35_SecondRequestFailed ==
    /\ node = "idle"
    /\ requests = 2
    /\ result = failure_result(<<"EOF when reading a line">>)
    /\ Len(conversation_memory) >= 1
    /\ conversation_memory = MemoryBefore
    /\ Len(state.conversation_history) > Len(conversation_memory)

\* the texts X of the replies 'CLARIFIED: X' the service gives
ClarifiedTexts ==
    { Strip(AfterMarker(call_gpt4o(o))) :
        o \in {c \in ClarifyOutcomes : StartsWith(call_gpt4o(c), "CLARIFIED:")} }

\* the texts a refinement call returns
RefinedTexts == { Strip(call_gpt4o(o)) : o \in RefineOutcomes }

\* the scenario: the classification is Clarify, the one execution of the
\* clarification step asks a question and its re-check after the user's
\* response returns 'CLARIFIED: X'
ClarifiedAfterResponse ==
    /\ state.route = "clarify"
    /\ Occurrences(visited, "route_prompt") = 1
    /\ Occurrences(visited, "clarify_loop") = 1
    /\ Occurrences(state.processing_steps,
                   <<"Clarification completed after user response">>) = 1

\* C19: in the scenario the workflow proceeds to Refining with clarified
\* true, one clarification round and refined_prompt = X; the result of the
\* request shows one clarification round, clarified = true, and as its
\* refined_prompt the trimmed reply of the refinement call
C19_ClarifiedScenario ==
    ClarifiedAfterResponse =>
        /\ Len(state.clarification_questions) = 1
        /\ Len(state.clarification_responses) = 1
        /\ state.clarified
        /\ node = "refine_prompt" => state.refined_prompt \in ClarifiedTexts
        /\ node # "refine_prompt" =>
               /\ Occurrences(visited, "refine_prompt") = 1
               /\ state.refined_prompt \in RefinedTexts
        /\ (node = "idle" /\ result # NoResult) =>
               /\ result.success
               /\ result.clarified
               /\ result.refined_prompt = state.refined_prompt

\* C19 as worded: the result of the request shows refined_prompt = X
C19_ResultKeepsClarifiedText ==
    (ClarifiedAfterResponse /\ node = "idle" /\ result # NoResult)
       => /\ Len(state.clarification_questions) = 1
          /\ result.clarified
          /\ result.refined_prompt \in ClarifiedTexts
          /\ Occurrences(visited, "refine_prompt") = 1

\* the scenario with a typed response, come to its result
C19_ScenarioCompleted ==
    /\ ClarifiedAfterResponse
    /\ ~TESTING_MODE
    /\ node = "idle"
    /\ result # NoResult
    /\ state.clarification_responses = <<<<"web app">>>>
    /\ result.refined_prompt = <<"Build an inventory web app">>

\* C20: a request whose classification selects Answer makes one gateway
\* call after the routing call, executes none of the clarification,
\* refinement and execution steps, and ends with final_result non-empty and
\* error empty
C20_AnswerRoute ==
    (node = "END" /\ state.route = "answer")
       => /\ calls = 2
          /\ visited = <<"route_prompt", "answer_with_llm">>
          /\ NonEmpty(state.final_result)
          /\ ~NonEmpty(state.error_message)

(***************************************************************************)
(* Properties of call_gpt4o, checked under SpecGateway.                    *)
(***************************************************************************)
ErrorText(e) == <<"Error calling GPT-4o:">> \o e

BridgeFairness ==
    \A c \in Conns :
        /\ WF_vars(ThreadInstall(c))
        /\ WF_vars(ThreadPrint(c))
        /\ WF_vars(\E fate \in Fates : ThreadLastPrint(c, fate))
        /\ WF_vars(ThreadReturn(c))
        /\ WF_vars(\E f \in SendFailures : HandlerFinish(c, f))
        /\ WF_vars(HandlerDisconnect(c))

FairSpecBridge == SpecBridge /\ BridgeFairness

(***************************************************************************)
(* Properties of the front end.                                            *)
(***************************************************************************)
Owner(c) == handler[c].session_id

Terminals(c) ==
    {i \in DOMAIN sent[c] : sent[c][i].type \in TerminalTypes}

C10_SessionLivesWithConnection ==
    \A c \in Conns :
        (client[c] = "connected" /\ Owner(c) # NoSession)
           => Owner(c) \in DOMAIN sessions

Registered == {c \in Conns : handler[c].pc \in {"created", "receive", "monitor"}}

\* C24: whatever the interleaving of connects and disconnects, the
\* manager's maps hold exactly the sessions created and not yet removed,
\* each with its own connection, and a removed session never comes back
C24_MapMatchesSessions ==
    /\ [](/\ DOMAIN sessions = {Owner(c) : c \in Registered}
          /\ DOMAIN active_connections = DOMAIN sessions
          /\ \A c \in Registered : active_connections[Owner(c)] = c)
    /\ [][\A s \in DOMAIN objects :
             s \notin DOMAIN sessions => s \notin DOMAIN sessions']_vars

\* one connection's session created and removed again while the other's
\* is registered
C24_OneRemovedOneRegistered ==
    \E c, d \in Conns :
        /\ handler[c].pc \in {"closed", "escaped"}
        /\ Owner(c) \in DOMAIN objects
        /\ Owner(c) \notin DOMAIN sessions
        /\ handler[d].pc = "created"
        /\ Owner(d) \in DOMAIN sessions

(***************************************************************************)
(* Properties of the SessionManager, checked under SpecManager.            *)
(***************************************************************************)
Maps == [sessions |-> sessions, active_connections |-> active_connections]

\* C25: in every state of the manager and for every id, registered, removed
\* before or never created: remove_session applied twice gives the state it
\* gives applied once; applied to an id that is not registered it changes
\* nothing; after it get_session of the id finds nothing and every other
\* session is where it was
C25_RemoveIdempotent ==
    \A id \in SessionIds \cup {BogusId} :
        LET once == remove_session(Maps, id)
            twice == remove_session(once, id)
        IN  /\ twice = once
            /\ id \notin DOMAIN sessions => once = Maps
            /\ get_session(once.sessions, id) = NoSession
            /\ id \notin DOMAIN once.active_connections
            /\ \A other \in DOMAIN sessions \ {id} :
                  /\ get_session(once.sessions, other) = sessions[other]
                  /\ once.active_connections[other] = active_connections[other]

\* a manager from which one session has been removed while two others are
\* registered and one id was never created
C25_RemovedAmongOthers ==
    \E id \in SessionIds :
        /\ id \in DOMAIN objects
        /\ id \notin DOMAIN sessions
        /\ Cardinality(DOMAIN sessions) = 2
        /\ Cardinality(DOMAIN objects) < MaxSessions

\* C38: in every reachable state of the SessionManager the ids that have
\* an entry in the sessions map are the ids that have an entry in the
\* active-connections map
C38_SameSessionIds ==
    DOMAIN sessions = DOMAIN active_connections

\* a manager after creations and removals: three sessions registered, each
\* with its own connection, and two removed
C38_ThreeLeftOfFive ==
    /\ Cardinality(DOMAIN objects) = MaxSessions
    /\ Cardinality(DOMAIN sessions) = 3
    /\ \A id \in DOMAIN sessions : active_connections[id] = id - uuid4(0)

(***************************************************************************)
(* Properties of the keep-alive, checked under SpecHeartbeat.              *)
(***************************************************************************)
\* the messages a step adds to what was sent on connection c
NewlySent(c) ==
    IF Len(sent'[c]) > Len(sent[c]) /\ IsPrefix(sent[c], sent'[c])
    THEN {sent'[c][i] : i \in (Len(sent[c]) + 1) .. Len(sent'[c])}
    ELSE {}

KeepAlive(m) == m.type = "processing_step" /\ m.data = "Processing..."

RejectsMessage(c) ==
    /\ handler[c].pc = "receive"
    /\ handler'[c].msgs = handler[c].msgs + 1
    /\ handler'[c].target = NoSession

RouteDecisions(c) ==
    {i \in DOMAIN sent[c] : sent[c][i].type = "route_decision" /\ sent[c][i].ok}

====
